---- MODULE Spec2Model ----
(***************************************************************************)
(* ts-storage-safe: the LocalStorage facade (src/index.ts) over the host   *)
(* key-value store.  The host store of this repository is LocalStorageMock *)
(* (jest.setup.ts), the object installed as the global `localStorage`.     *)
(*                                                                         *)
(* Text (keys, stored strings, messages) is a sequence of pieces; a piece  *)
(* is one character, or a fixed fragment of a message written as one       *)
(* string.  Concatenation is \o and the empty string is << >>.             *)
(***************************************************************************)
EXTENDS Integers, Sequences, FiniteSets, TLC

\* The most keys the host store holds at one time.
MaxKeys == 2

(***************************************************************************)
(* JavaScript values                                                       *)
(***************************************************************************)
Undefined == [t |-> "undefined", s |-> << >>]
Null == [t |-> "null", s |-> << >>]
True == [t |-> "true", s |-> << >>]
False == [t |-> "false", s |-> << >>]
JsString(s) == [t |-> "string", s |-> s]
\* an object that refers to itself: JSON.stringify cannot encode it
Circular == [t |-> "circular", s |-> << >>]
\* a built-in function object, such as Object.prototype.constructor
Function == [t |-> "function", s |-> << >>]
\* new Error(message)
JsError(message) == [t |-> "Error", s |-> message]

JsBool(b) == IF b THEN True ELSE False

\* ToBoolean: what `x || y` and `x ? a : b` test
Truthy(v) ==
    /\ v.t \notin {"undefined", "null", "false"}
    /\ ~(v.t = "string" /\ v.s = << >>)

\* x || y
OrElse(x, y) == IF Truthy(x) THEN x ELSE y

\* String(x)
StringOf(x) ==
    CASE x.t = "string" -> x.s
      [] x.t = "Error" -> <<"Error: ">> \o x.s
      [] x.t = "circular" -> <<"[object Object]">>
      [] x.t = "function" -> <<"function Object() { [native code] }">>
      [] OTHER -> <<x.t>>

\* key.startsWith(p)
startsWith(text, p) ==
    /\ Len(text) >= Len(p)
    /\ SubSeq(text, 1, Len(p)) = p

\* what a call that may throw gives back
Returned(v) == [threw |-> FALSE, v |-> v]
Thrown(e) == [threw |-> TRUE, v |-> e]

(***************************************************************************)
(* Serializers                                                             *)
(***************************************************************************)
Quote == "\""

\* the characters of the values stored here: JSON writes them unescaped
Plain == {"a", "d"}

\* JSON.stringify(value), the default serializer's stringify
JsonStringify(value) ==
    CASE value.t = "undefined" -> Returned(Undefined)
      [] value.t = "null" -> Returned(JsString(<<"n", "u", "l", "l">>))
      [] value.t = "string" -> Returned(JsString(<<Quote>> \o value.s \o <<Quote>>))
      [] OTHER -> Thrown(JsError(<<"Converting circular structure to JSON">>))

\* JSON.parse(value), the default serializer's parse
JsonParse(value) ==
    LET text == StringOf(value)
        n == Len(text)
    IN  CASE text = <<"n", "u", "l", "l">> -> Returned(Null)
          [] /\ n >= 2
             /\ text[1] = Quote
             /\ text[n] = Quote
             /\ \A i \in 2..(n - 1) : text[i] \in Plain
               -> Returned(JsString(SubSeq(text, 2, n - 1)))
          [] n = 0 -> Thrown(JsError(<<"Unexpected end of JSON input">>))
          [] OTHER -> Thrown(JsError(<<"Unexpected token">>))

\* A custom serializer that keeps strings as they are:
\*   stringify: v => { if (typeof v !== 'string') throw 'not a string'; return v }
\*   parse:     v => v
RawStringify(value) ==
    IF value.t = "string" THEN Returned(value)
    ELSE Thrown(JsString(<<"not a string">>))

RawParse(value) == Returned(value)

\* The custom serializer of the test suite and the README:
\*   stringify: v => Buffer.from(JSON.stringify(v)).toString('base64')
\*   parse:     v => JSON.parse(Buffer.from(v, 'base64').toString())
\* The printable ASCII characters, in the order of their codes 32..126 (three
\* of them, which no text here holds, written by name)
Ascii ==
    <<" ", "!", "\"", "#", "$", "%", "&", "apostrophe", "(", ")", "*", "+", ",", "-",
      ".", "/", "0", "1", "2", "3", "4", "5", "6", "7", "8", "9", ":", ";",
      "<", "=", ">", "?", "@", "A", "B", "C", "D", "E", "F", "G", "H", "I",
      "J", "K", "L", "M", "N", "O", "P", "Q", "R", "S", "T", "U", "V", "W",
      "X", "Y", "Z", "[", "backslash", "]", "^", "_", "backtick", "a", "b", "c", "d", "e",
      "f", "g", "h", "i", "j", "k", "l", "m", "n", "o", "p", "q", "r", "s",
      "t", "u", "v", "w", "x", "y", "z", "{", "|", "}", "~">>

\* the base64 digits, in the order of their values 0..63
Digits ==
    <<"A", "B", "C", "D", "E", "F", "G", "H", "I", "J", "K", "L", "M", "N",
      "O", "P", "Q", "R", "S", "T", "U", "V", "W", "X", "Y", "Z", "a", "b",
      "c", "d", "e", "f", "g", "h", "i", "j", "k", "l", "m", "n", "o", "p",
      "q", "r", "s", "t", "u", "v", "w", "x", "y", "z", "0", "1", "2", "3",
      "4", "5", "6", "7", "8", "9", "+", "/">>

IndexIn(table, c) == CHOOSE i \in 1..Len(table) : table[i] = c

\* Buffer.from(text): the bytes of a text of ASCII characters
RECURSIVE bytesOf(_)
bytesOf(text) ==
    IF text = << >> THEN << >>
    ELSE <<IndexIn(Ascii, Head(text)) + 31>> \o bytesOf(Tail(text))

\* buffer.toString(): a byte that is no printable ASCII character comes
\* out as the replacement character
RECURSIVE textOf(_)
textOf(bytes) ==
    IF bytes = << >> THEN << >>
    ELSE <<IF Head(bytes) \in 32..126 THEN Ascii[Head(bytes) - 31] ELSE "U+FFFD">>
             \o textOf(Tail(bytes))

\* buffer.toString('base64')
RECURSIVE base64(_)
base64(bytes) ==
    LET n == Len(bytes)
        digit(v) == Digits[v + 1]
    IN  IF n = 0 THEN << >>
        ELSE IF n = 1
        THEN <<digit(bytes[1] \div 4), digit((bytes[1] % 4) * 16), "=", "=">>
        ELSE IF n = 2
        THEN <<digit(bytes[1] \div 4),
               digit((bytes[1] % 4) * 16 + bytes[2] \div 16),
               digit((bytes[2] % 16) * 4), "=">>
        ELSE <<digit(bytes[1] \div 4),
               digit((bytes[1] % 4) * 16 + bytes[2] \div 16),
               digit((bytes[2] % 16) * 4 + bytes[3] \div 64),
               digit(bytes[3] % 64)>>
                 \o base64(SubSeq(bytes, 4, n))

\* the bytes of a run of base64 digit values: three of every four digits,
\* one of a last two, two of a last three
RECURSIVE bytesOfDigits(_)
bytesOfDigits(v) ==
    LET n == Len(v)
    IN  IF n < 2 THEN << >>
        ELSE IF n = 2 THEN <<v[1] * 4 + v[2] \div 16>>
        ELSE IF n = 3
        THEN <<v[1] * 4 + v[2] \div 16, (v[2] % 16) * 16 + v[3] \div 4>>
        ELSE <<v[1] * 4 + v[2] \div 16, (v[2] % 16) * 16 + v[3] \div 4,
               (v[3] % 4) * 64 + v[4]>>
                 \o bytesOfDigits(SubSeq(v, 5, n))

\* Buffer.from(text, 'base64'): the digits up to the first "=", the
\* characters that are no digits passed over
RECURSIVE digitsOf(_)
digitsOf(text) ==
    IF text = << >> \/ Head(text) = "=" THEN << >>
    ELSE IF \E i \in 1..Len(Digits) : Digits[i] = Head(text)
    THEN <<IndexIn(Digits, Head(text)) - 1>> \o digitsOf(Tail(text))
    ELSE digitsOf(Tail(text))

Base64Stringify(value) ==
    LET jsonString == JsonStringify(value)
    IN  IF jsonString.threw THEN jsonString
        ELSE IF jsonString.v.t # "string"
        THEN Thrown(JsError(<<"The first argument must be of type string">>))
        ELSE Returned(JsString(base64(bytesOf(jsonString.v.s))))

Base64Parse(value) ==
    JsonParse(JsString(textOf(bytesOfDigits(digitsOf(StringOf(value))))))

stringify(serializer, value) ==
    CASE serializer = "json" -> JsonStringify(value)
      [] serializer = "base64" -> Base64Stringify(value)
      [] OTHER -> RawStringify(value)

parse(serializer, value) ==
    CASE serializer = "json" -> JsonParse(value)
      [] serializer = "base64" -> Base64Parse(value)
      [] OTHER -> RawParse(value)

(***************************************************************************)
(* LocalStorageMock, the host store                                        *)
(***************************************************************************)
EmptyStore == [k \in {} |-> Undefined]

\* the mock after construction, and after clear()
mockClear == [store |-> EmptyStore, keys |-> << >>, length |-> 0]

includes(keys, key) == \E i \in 1..Len(keys) : keys[i] = key

\* The names every object literal inherits from Object.prototype; the one
\* used here is "constructor", written as one piece.
Inherited == {<<"constructor">>}

\* this.store[key]: store is an object literal, so a name it does not own
\* is looked up in Object.prototype
storeAt(h, key) ==
    IF key \in DOMAIN h.store THEN h.store[key]
    ELSE IF key \in Inherited THEN Function
    ELSE Undefined

getItem(h, key) == OrElse(storeAt(h, key), Null)

setItem(h, key, value) ==
    LET store == [k \in DOMAIN h.store \cup {key} |->
                     IF k = key THEN value ELSE h.store[k]]
        keys == IF includes(h.keys, key) THEN h.keys ELSE Append(h.keys, key)
    IN  [store |-> store,
         keys |-> keys,
         length |-> IF includes(h.keys, key) THEN h.length ELSE Len(keys)]

removeItem(h, key) ==
    LET keys == SelectSeq(h.keys, LAMBDA k : k # key)
    IN  [store |-> [k \in DOMAIN h.store \ {key} |-> h.store[k]],
         keys |-> keys,
         length |-> Len(keys)]

\* key(index): this.keys[index] || null, index counted from 0
key(h, index) ==
    OrElse(IF index + 1 \in 1..Len(h.keys) THEN JsString(h.keys[index + 1])
           ELSE Undefined,
           Null)

(***************************************************************************)
(* LocalStorage, the facade                                                *)
(***************************************************************************)
\* new LocalStorage(options): options.prefix is a string or undefined,
\* options.serializer a serializer or absent ("default")
LocalStorage(options) ==
    [prefix |-> OrElse(options.prefix, JsString(<< >>)).s,
     serializer |-> IF options.serializer = "default" THEN "json"
                    ELSE options.serializer]

\* a getKey that forgets the prefix
getKeyBare(this, k) == k

getKey(this, k) ==
    IF Truthy(JsString(this.prefix)) THEN this.prefix \o <<":">> \o k ELSE k

\* a catch block that takes String(error) of every failure
causeAsString(error) == StringOf(error)

\* the message of the error a catch block rethrows
causeOf(error) == IF error.t = "Error" THEN error.s ELSE StringOf(error)

\* What one call of a facade method did: the host store it leaves, how it
\* ended ("return" or "throw") and with what, and the host calls it made:
\* the keys handed to setItem, getItem and removeItem (with the keys a
\* localStorage.clear() dropped), the key(i) calls in order, and the number
\* of calls of the serializer's parse.
Effect(h, outcome, value, written, read, deleted, visited, parsed) ==
    [host |-> h, outcome |-> outcome, value |-> value, written |-> written,
     read |-> read, deleted |-> deleted, visited |-> visited, parsed |-> parsed]

\* set(key, value); fault is what localStorage.setItem throws, or Undefined
\* when the host accepts the write
set(this, h, k, value, fault) ==
    LET serializedValue == stringify(this.serializer, value)
        failed(error) ==
            Effect(h, "throw",
                   JsError(<<"Failed to set item: ">> \o causeOf(error)),
                   IF serializedValue.threw THEN {} ELSE {getKey(this, k)},
                   {}, {}, << >>, 0)
    IN  IF serializedValue.threw THEN failed(serializedValue.v)
        ELSE IF fault # Undefined THEN failed(fault)
        ELSE Effect(setItem(h, getKey(this, k), serializedValue.v), "return",
                    Undefined, {getKey(this, k)}, {}, {}, << >>, 0)

get(this, h, k, defaultValue) ==
    LET value == getItem(h, getKey(this, k))
        parsed == parse(this.serializer, value)
    IN  IF value = Null
        THEN Effect(h, "return", defaultValue, {}, {getKey(this, k)}, {}, << >>, 0)
        ELSE IF parsed.threw
        THEN Effect(h, "throw",
                    JsError(<<"Failed to get item: ">> \o causeOf(parsed.v)),
                    {}, {getKey(this, k)}, {}, << >>, 1)
        ELSE Effect(h, "return", parsed.v, {}, {getKey(this, k)}, {}, << >>, 1)

\* a remove that hands the bare key to the host
removeBareKey(this, h, k) ==
    Effect(removeItem(h, k), "return", Undefined, {}, {}, {k}, << >>, 0)

remove(this, h, k) ==
    Effect(removeItem(h, getKey(this, k)), "return", Undefined,
           {}, {}, {getKey(this, k)}, << >>, 0)

has(this, h, k) ==
    Effect(h, "return", JsBool(getItem(h, getKey(this, k)) # Null),
           {}, {getKey(this, k)}, {}, << >>, 0)

\* the keys held at position `index` of the host store: one, or none
slotAt(h, index) ==
    IF index + 1 \in 1..Len(h.keys) THEN <<h.keys[index + 1]>> ELSE << >>

\* the loop of clear: i runs from localStorage.length - 1 down to 0
RECURSIVE scanDown(_, _, _, _, _)
scanDown(this, h, i, deleted, visited) ==
    IF ~(i >= 0)
    THEN Effect(h, "return", Undefined, {}, {}, deleted, visited, 0)
    ELSE LET k == key(h, i)
             hit == Truthy(k) /\ startsWith(k.s, this.prefix \o <<":">>)
         IN  scanDown(this,
                      IF hit THEN removeItem(h, k.s) ELSE h,
                      i - 1,
                      IF hit THEN deleted \cup {k.s} ELSE deleted,
                      Append(visited, [index |-> i, key |-> k, slot |-> slotAt(h, i)]))

\* a scan that runs upward instead, against the live length
RECURSIVE scanUp(_, _, _, _, _)
scanUp(this, h, i, deleted, visited) ==
    IF ~(i < h.length)
    THEN Effect(h, "return", Undefined, {}, {}, deleted, visited, 0)
    ELSE LET k == key(h, i)
             hit == Truthy(k) /\ startsWith(k.s, this.prefix \o <<":">>)
         IN  scanUp(this,
                    IF hit THEN removeItem(h, k.s) ELSE h,
                    i + 1,
                    IF hit THEN deleted \cup {k.s} ELSE deleted,
                    Append(visited, [index |-> i, key |-> k, slot |-> slotAt(h, i)]))

clearPrefixedUpward(this, h) == scanUp(this, h, 0, {}, << >>)

\* a prefix-scoped clear that forgets the prefix and wipes the store
clearPrefixedAsWipe(this, h) ==
    Effect(mockClear, "return", Undefined, {}, {},
           DOMAIN h.store \cup {h.keys[i] : i \in 1..Len(h.keys)}, << >>, 0)

clearPrefixed(this, h) == scanDown(this, h, h.length - 1, {}, << >>)

\* localStorage.clear() drops every key of the store
clearWhole(h) ==
    Effect(mockClear, "return", Undefined, {}, {},
           DOMAIN h.store \cup {h.keys[i] : i \in 1..Len(h.keys)}, << >>, 0)

\* a clear that never looks at clearAll
clearIgnoringFlag(this, h, clearAll) ==
    IF Truthy(JsString(this.prefix)) THEN clearPrefixed(this, h)
    ELSE clearWhole(h)

clear(this, h, clearAll) ==
    IF clearAll THEN clearWhole(h)
    ELSE IF Truthy(JsString(this.prefix)) THEN clearPrefixed(this, h)
    ELSE clearWhole(h)

(***************************************************************************)
(* The inputs.  Three sets of them: one rich in values, serializers and    *)
(* host faults over one key (Spec), one rich in prefixes and keys over one *)
(* value (SpecNamespaces), and one over a key whose name Object.prototype  *)
(* holds (SpecInherited).                                                  *)
(***************************************************************************)
\* `storage`, the default instance
storage == LocalStorage([prefix |-> Undefined, serializer |-> "default"])

Options ==
    [prefix : {Undefined, JsString(<< >>), JsString(<<"a">>)},
     serializer : {"default", "raw", "base64"}]

Facades == {LocalStorage(options) : options \in Options}

Keys == {<<"k">>}

Values == {Undefined, Null, JsString(<< >>), JsString(<<"a">>), Circular}

Defaults == {Undefined, JsString(<<"d">>)}

\* what localStorage.setItem throws: nothing, or a DOMException (an Error)
Faults == {Undefined, JsError(<<"QuotaExceededError">>)}

NsOptions ==
    [prefix : {Undefined, JsString(<<"a">>), JsString(<<"b">>),
               JsString(<<"a", ":", "b">>)},
     serializer : {"default"}]

NsFacades == {LocalStorage(options) : options \in NsOptions}

NsKeys == {<< >>, <<"k">>, <<"b", ":", "k">>}

NsValues == {JsString(<<"a">>)}

(***************************************************************************)
(* The state: the host store, and the last call made on a facade           *)
(***************************************************************************)
VARIABLES localStorage, last

vars == <<localStorage, last>>

Call(op, this, k, value, clearAll, fault, effect) ==
    [op |-> op, this |-> this, key |-> k, value |-> value, clearAll |-> clearAll,
     fault |-> fault, pre |-> localStorage, effect |-> effect]

Init ==
    /\ localStorage = mockClear
    /\ last = [op |-> "new", this |-> storage, key |-> << >>, value |-> Undefined,
               clearAll |-> FALSE, fault |-> Undefined, pre |-> mockClear,
               effect |-> Effect(mockClear, "return", Undefined,
                                 {}, {}, {}, << >>, 0)]

DoSet(F, K, V, Flt) ==
    \E this \in F, k \in K, value \in V, fault \in Flt :
        LET effect == set(this, localStorage, k, value, fault)
        IN  /\ effect.host.length <= MaxKeys
            /\ localStorage' = effect.host
            /\ last' = Call("set", this, k, value, FALSE, fault, effect)

DoGet(F, K, D) ==
    \E this \in F, k \in K, defaultValue \in D :
        LET effect == get(this, localStorage, k, defaultValue)
        IN  /\ localStorage' = effect.host
            /\ last' = Call("get", this, k, defaultValue, FALSE, Undefined, effect)

DoRemove(F, K) ==
    \E this \in F, k \in K :
        LET effect == remove(this, localStorage, k)
        IN  /\ localStorage' = effect.host
            /\ last' = Call("remove", this, k, Undefined, FALSE, Undefined, effect)

DoHas(F, K) ==
    \E this \in F, k \in K :
        LET effect == has(this, localStorage, k)
        IN  /\ localStorage' = effect.host
            /\ last' = Call("has", this, k, Undefined, FALSE, Undefined, effect)

DoClear(F) ==
    \E this \in F, clearAll \in BOOLEAN :
        LET effect == clear(this, localStorage, clearAll)
        IN  /\ localStorage' = effect.host
            /\ last' = Call("clear", this, << >>, Undefined, clearAll, Undefined,
                            effect)

Set == DoSet(Facades, Keys, Values, Faults)
Get == DoGet(Facades, Keys, Defaults)
Remove == DoRemove(Facades, Keys)
Has == DoHas(Facades, Keys)
Clear == DoClear(Facades)

Next == Set \/ Get \/ Remove \/ Has \/ Clear

Spec == Init /\ [][Next]_vars

\* the default instance and a raw one, over a key that Object.prototype names
InFacades ==
    {LocalStorage(options) :
        options \in [prefix : {Undefined}, serializer : {"default", "raw"}]}

InKeys == {<<"k">>, <<"constructor">>}

InValues == {JsString(<< >>), JsString(<<"a">>)}

InSet == DoSet(InFacades, InKeys, InValues, {Undefined})
InGet == DoGet(InFacades, InKeys, Defaults)
InRemove == DoRemove(InFacades, InKeys)
InHas == DoHas(InFacades, InKeys)
InClear == DoClear(InFacades)

InNext == InSet \/ InGet \/ InRemove \/ InHas \/ InClear

SpecInherited == Init /\ [][InNext]_vars

NsSet == DoSet(NsFacades, NsKeys, NsValues, {Undefined})
NsGet == DoGet(NsFacades, NsKeys, {Undefined})
NsRemove == DoRemove(NsFacades, NsKeys)
NsHas == DoHas(NsFacades, NsKeys)
NsClear == DoClear(NsFacades)

NsNext == NsSet \/ NsGet \/ NsRemove \/ NsHas \/ NsClear

SpecNamespaces == Init /\ [][NsNext]_vars

(***************************************************************************)
(* Vocabulary of the claims                                                *)
(***************************************************************************)
\* text is "<P>:" followed by anything
InNamespace(text, P) ==
    /\ Len(text) > Len(P)
    /\ \A i \in 1..Len(P) : text[i] = P[i]
    /\ text[Len(P) + 1] = ":"

\* the keys a host store enumerates
KeySet(h) == {h.keys[i] : i \in 1..Len(h.keys)}

\* the call returned value
Returns(effect, value) == effect.outcome = "return" /\ effect.value = value

Prefixed(this) == this.prefix # << >>

ScopedClear == last.op = "clear" /\ ~last.clearAll /\ Prefixed(last.this)

\* neither namespace lies inside the other
Apart(p, q) == ~InNamespace(p, q) /\ ~InNamespace(q, p)

(***************************************************************************)
(* C1  clear(clearAll) leaves the reference result: the empty store when   *)
(* clearAll is true or the facade has no prefix, else the store without    *)
(* the entries whose key begins with "<prefix>:", the rest unchanged.      *)
(***************************************************************************)
C1_ClearLeavesReference ==
    last.op = "clear" =>
        LET S == last.pre
            P == last.this.prefix
            kept == IF last.clearAll \/ P = << >> THEN {}
                    ELSE {k \in KeySet(S) : ~InNamespace(k, P)}
        IN  /\ DOMAIN localStorage.store = kept
            /\ \A k \in kept : localStorage.store[k] = S.store[k]
            /\ localStorage.keys = SelectSeq(S.keys, LAMBDA k : k \in kept)
            /\ localStorage.length = Cardinality(kept)
            /\ last.effect.outcome = "return"

C1_Witness ==
    /\ ScopedClear
    /\ last.pre.length = 2
    /\ localStorage.length = 1

(***************************************************************************)
(* C10  The downward scan of a prefix-scoped clear over N keys makes       *)
(* exactly N iterations, at the indices N-1, ..., 0, and the iteration at  *)
(* index i finds there the key that was at index i when the scan began: no *)
(* key is skipped or met twice, whichever keys are removed on the way.     *)
(***************************************************************************)
C10_ScanMeetsEveryKeyOnce ==
    ScopedClear =>
        LET N == last.pre.length
            visited == last.effect.visited
        IN  /\ Len(visited) = N
            /\ \A j \in 1..Len(visited) :
                   /\ visited[j].index = N - j
                   /\ visited[j].slot = <<last.pre.keys[N - j + 1]>>
                   /\ visited[j].key = key(last.pre, N - j)
            /\ \A k \in KeySet(last.pre) :
                   Cardinality({j \in 1..Len(visited) : visited[j].slot = <<k>>}) = 1

\* the key met first (the last one) is removed, and the scan goes on
C10_Witness ==
    /\ ScopedClear
    /\ last.pre.length = 2
    /\ last.pre.keys[2] \in last.effect.deleted
    /\ Len(last.effect.visited) = 2

(***************************************************************************)
(* C3  For facades with distinct non-empty prefixes p1 # p2, set(k, v) on  *)
(* the first does not make has(k) true on the second, and afterwards the   *)
(* host store holds a key literally equal to "<p1>:<k>".                   *)
(***************************************************************************)
C3_SetStaysInItsNamespace ==
    (last.op = "set" /\ last.effect.outcome = "return" /\ Prefixed(last.this)) =>
        /\ last.this.prefix \o <<":">> \o last.key \in KeySet(localStorage)
        /\ last.this.prefix \o <<":">> \o last.key \in DOMAIN localStorage.store
        /\ \A other \in NsFacades :
               (Prefixed(other) /\ other.prefix # last.this.prefix) =>
                   has(other, localStorage, last.key).value
                       = has(other, last.pre, last.key).value

\* a key newly written by one facade, absent for another, present for itself
C3_Witness ==
    /\ last.op = "set"
    /\ last.effect.outcome = "return"
    /\ last.this.prefix = <<"a">>
    /\ last.key = <<"k">>
    /\ <<"a", ":", "k">> \notin KeySet(last.pre)
    /\ <<"a", ":", "k">> \in KeySet(localStorage)
    /\ has(last.this, localStorage, last.key).value = True
    /\ \E other \in NsFacades :
           /\ other.prefix = <<"b">>
           /\ has(other, localStorage, last.key).value = False

(***************************************************************************)
(* C4  as claimed: for any two facades with distinct non-empty prefixes,   *)
(* clear() on the first makes has(k) false on it for every k and leaves    *)
(* has(k) and get(k) of the second unchanged for every k.                  *)
(***************************************************************************)
SameAnswers(other, h1, h2) ==
    \A k \in NsKeys :
        /\ has(other, h1, k).value = has(other, h2, k).value
        /\ get(other, h1, k, Undefined).outcome = get(other, h2, k, Undefined).outcome
        /\ get(other, h1, k, Undefined).value = get(other, h2, k, Undefined).value

C4_AsClaimed ==
    ScopedClear =>
        /\ \A k \in NsKeys : has(last.this, localStorage, k).value = False
        /\ \A other \in NsFacades :
               (Prefixed(other) /\ other.prefix # last.this.prefix) =>
                   SameAnswers(other, last.pre, localStorage)

(***************************************************************************)
(* C4  amended: the same, for two prefixes neither of which begins with    *)
(* the other followed by ":".                                              *)
(***************************************************************************)
C4_ClearSparesNamespacesApart ==
    ScopedClear =>
        /\ \A k \in NsKeys : has(last.this, localStorage, k).value = False
        /\ \A other \in NsFacades :
               (/\ Prefixed(other)
                /\ other.prefix # last.this.prefix
                /\ Apart(other.prefix, last.this.prefix)) =>
                   SameAnswers(other, last.pre, localStorage)

\* the test's case: both facades hold key "k", the first one clears
C4_Witness ==
    /\ ScopedClear
    /\ last.this.prefix = <<"a">>
    /\ <<"a", ":", "k">> \in KeySet(last.pre)
    /\ <<"b", ":", "k">> \in KeySet(last.pre)
    /\ has(last.this, localStorage, <<"k">>).value = False
    /\ \E other \in NsFacades :
           /\ other.prefix = <<"b">>
           /\ has(other, localStorage, <<"k">>).value = True

(***************************************************************************)
(* C5  as claimed: whatever a facade with non-empty prefix P does (set,    *)
(* get, remove, has, clear with either flag), every host key it writes,    *)
(* reads or deletes has the form "P:key".                                  *)
(***************************************************************************)
Touched == last.effect.written \cup last.effect.read \cup last.effect.deleted

C5_AsClaimed ==
    (last.op # "new" /\ Prefixed(last.this)) =>
        \A k \in Touched : InNamespace(k, last.this.prefix)

(***************************************************************************)
(* C5  amended: set, get, remove, has and clear() without clearAll write,  *)
(* read (getItem) and delete only keys of the form "P:key"; clear(true)    *)
(* deletes every key of the host store, whatever its form.                 *)
(***************************************************************************)
C5_OnlyOwnKeysUnlessClearAll ==
    (last.op # "new" /\ Prefixed(last.this)) =>
        IF last.op = "clear" /\ last.clearAll
        THEN /\ last.effect.deleted = KeySet(last.pre)
             /\ last.effect.written = {}
             /\ last.effect.read = {}
        ELSE \A k \in Touched : InNamespace(k, last.this.prefix)

\* a scoped clear that deletes a key of its own and passes over a foreign one
C5_Witness ==
    /\ ScopedClear
    /\ last.effect.deleted # {}
    /\ \E k \in KeySet(last.pre) : ~InNamespace(k, last.this.prefix)
    /\ \A k \in last.effect.deleted : InNamespace(k, last.this.prefix)

(***************************************************************************)
(* C2  A successful set(k, v) followed at once by get(k) on the same       *)
(* facade returns v, for every key k and every value v the facade's        *)
(* serializer can encode and decode back, also when k held another value.  *)
(***************************************************************************)
\* decode inverts encode on value
Serializable(serializer, value) ==
    LET text == stringify(serializer, value)
    IN  /\ ~text.threw
        /\ text.v.t = "string"
        /\ parse(serializer, text.v) = Returned(value)

SetDone == last.op = "set" /\ last.effect.outcome = "return"

C2_AsClaimed ==
    (SetDone /\ Serializable(last.this.serializer, last.value)) =>
        Returns(get(last.this, localStorage, last.key, Undefined), last.value)

(***************************************************************************)
(* C6  has(k) is true right after a successful set(k, v), for every value  *)
(* v, and false right after remove(k); remove(k) of an absent key raises   *)
(* no error.                                                               *)
(***************************************************************************)
C6_AsClaimed ==
    /\ SetDone => has(last.this, localStorage, last.key).value = True
    /\ last.op = "remove" =>
           /\ last.effect.outcome = "return"
           /\ has(last.this, localStorage, last.key).value = False

(***************************************************************************)
(* C7  When the namespaced key of k is absent from the host store,         *)
(* get(k, d) returns d and get(k) returns undefined, without a call of     *)
(* the serializer's parse and without a change of the host store.          *)
(***************************************************************************)
Absent(h, text) == text \notin KeySet(h) /\ text \notin DOMAIN h.store

C7_AsClaimed ==
    (last.op = "get" /\ Absent(last.pre, getKey(last.this, last.key))) =>
        /\ Returns(last.effect, last.value)
        /\ last.effect.parsed = 0
        /\ localStorage = last.pre

(***************************************************************************)
(* C8  as claimed: when the serializer's stringify or the host's setItem   *)
(* fails during set(k, v), set fails with a StorageWriteError whose        *)
(* message is "Failed to set item: " followed by the failure's message,    *)
(* and no other error kind or message leaves set.                          *)
(***************************************************************************)
\* what failed in the last set: the thrown value of stringify, else of setItem
SetCause ==
    IF stringify(last.this.serializer, last.value).threw
    THEN stringify(last.this.serializer, last.value).v
    ELSE last.fault

SetFails ==
    /\ last.op = "set"
    /\ stringify(last.this.serializer, last.value).threw \/ last.fault # Undefined

\* the text of a failure: the message of an Error, and a thrown string itself
FailureText(cause) == cause.s

SetThrows(kind) ==
    /\ last.effect.outcome = "throw"
    /\ last.effect.value.t = kind
    /\ last.effect.value.s = <<"Failed to set item: ">> \o FailureText(SetCause)

HeldRaw == storeAt(last.pre, getKey(last.this, last.key))

C9_AsClaimed ==
    (/\ last.op = "get"
     /\ HeldRaw.t = "string"
     /\ parse(last.this.serializer, HeldRaw).threw) =>
        /\ last.effect.outcome = "throw"
        /\ last.effect.value.s
               = <<"Failed to get item: ">>
                     \o FailureText(parse(last.this.serializer, HeldRaw).v)
        /\ localStorage = last.pre
        /\ has(last.this, localStorage, last.key).value = True
        /\ has(last.this, localStorage, last.key).host = localStorage

====
